---- MODULE Spec2Model ----
(***************************************************************************)
(* Model of components/file_system/src/rate_limiter.rs: the priority based *)
(* IO rate limiter (PriorityBasedIORateLimiter), its throughput estimator  *)
(* and the IORateLimiter facade.                                           *)
(*                                                                         *)
(* Threads interleave at the granularity of the atomic operations of the   *)
(* source: one action per atomic load / swap / fetch_add / store on        *)
(* bytes_through and bytes_per_epoch, per clock read, and per mutex        *)
(* protected block.  A mutex acquisition is merged with the first shared   *)
(* access that follows it and a release with the last one before it; the   *)
(* entry of a call is merged with its first shared access.  Atomics are    *)
(* modelled as sequentially consistent.                                    *)
(*                                                                         *)
(* Time is in milliseconds.  The code only ever compares and subtracts     *)
(* Instants, so an Instant is stored as its offset from the current clock  *)
(* reading: Instant::now_coarse() reads 0, and a tick of d milliseconds    *)
(* lowers every stored Instant by d.                                       *)
(***************************************************************************)
EXTENDS Integers, Sequences, FiniteSets, TLC

\* ------------------------------------------------------------ bounds
\* largest amount a request asks for
MaxAmount == 2
\* cap on bytes_through[p]: a fetch_add beyond it is not taken
MaxThrough == 3
\* cap on pending_bytes[p]
MaxPending == 2
\* the clock runs at most this far past next_refill_time
MaxOverdue == 21
\* the clock advances at most this far between a clock read and its use
MaxStale == 2
\* epochs (estimator samples) a run goes through
MaxEpochs == 1
\* cap on a statistics counter
MaxStat == 1
\* largest budget per epoch set before the refills of SpecRefill
MaxBudget == 2
\* number of samples fed to the estimator of SpecEstimator
MaxSamples == 10
\* largest of these samples
MaxSample == 1

\* ------------------------------------------------------------ program constants
DEFAULT_REFILL_PERIOD == 40
WINDOW_SIZE == 5
RETRY_SLACK == 1

Priorities == {"High", "Medium", "Low"}
\* the priority whose index is pi - 1
Lower(p) == IF p = "High" THEN "Medium" ELSE "Low"

IOTypes == {"ForegroundWrite", "Compaction", "Import"}
IOOps == {"Read", "Write"}

Requesters == {"req1", "req2"}
Daemons == {"daemon"}
Setters == {"set1", "set2"}
Threads == Requesters \cup Daemons \cup Setters

Amounts == 0..MaxAmount
\* rates (bytes per second) a setter passes: budgets 0 and 1
Rates == {0, 25}

Min(a, b) == IF a <= b THEN a ELSE b
Max(a, b) == IF a >= b THEN a ELSE b
\* usize::saturating_sub without the saturation
unsaturated_sub(a, b) == a - b

saturating_sub(a, b) == IF a > b THEN a - b ELSE 0

VARIABLES
    bytes_through,            \* [Priorities -> Nat], atomic
    bytes_per_epoch,          \* [Priorities -> Nat], atomic
    next_refill_time,         \* protected
    pending_bytes,            \* protected: [Priorities -> Nat]
    estimated_bytes_through,  \* protected: [Priorities -> [count, sum]]
    mutex,                    \* holder of `protected`, or "free"
    priority_map,             \* IORateLimiter: [IOTypes -> Priorities]
    stats,                    \* IORateLimiter: Option of the counters
    th,                       \* per thread: program counter and locals
    hist                      \* history of the calls (not program state)

vars == <<bytes_through, bytes_per_epoch, next_refill_time, pending_bytes,
          estimated_bytes_through, mutex, priority_map, stats, th, hist>>

throttle == <<bytes_through, bytes_per_epoch, next_refill_time, pending_bytes,
              estimated_bytes_through>>

facade == <<priority_map, stats>>

\* ------------------------------------------------------------ estimator
IOThroughputEstimator_new == [count |-> 0, sum |-> 0]

\* maybe_update_estimation without the reset of line 125
maybe_update_estimation_no_reset(e, v) ==
    LET count == e.count + 1
        sum == e.sum + v
    IN  IF count % WINDOW_SIZE = 0
        THEN [est |-> [count |-> count, sum |-> sum], some |-> TRUE,
              avg |-> sum \div WINDOW_SIZE]
        ELSE [est |-> [count |-> count, sum |-> sum], some |-> FALSE, avg |-> 0]

\* line 118-130: the estimator after the call, and the Option it returns
maybe_update_estimation(e, v) ==
    LET count == e.count + 1
        sum == e.sum + v
    IN  IF count % WINDOW_SIZE = 0
        THEN [est |-> [count |-> count, sum |-> 0], some |-> TRUE,
              avg |-> sum \div WINDOW_SIZE]
        ELSE [est |-> [count |-> count, sum |-> sum], some |-> FALSE, avg |-> 0]

\* ------------------------------------------------------------ threads
\* how: the path the last call took.  History fields: q0, the request began
\* while the limiter was switched off (hist.quiet0); from0, the setter call
\* began in such a state, which a limiter switched on had been put into
\* (hist.wason); overlap, another setter call ran during this one; charged,
\* the bytes the request has added to bytes_through that no refill has reset
\* and that are not registered in pending_bytes yet; retried, the request,
\* not registered yet, started over from the load of the budget
NoCall ==
    [pc |-> "idle", op |-> "none", io_type |-> "none", io_op |-> "none",
     priority |-> "High", req |-> 0, cached |-> 0, amount |-> 0, now |-> 0,
     pending |-> 0, wait |-> 0, wake |-> 0, result |-> 0, limit |-> 0,
     before |-> 0, some |-> FALSE, avg |-> 0, nested |-> FALSE, how |-> "none",
     q0 |-> FALSE, from0 |-> FALSE, overlap |-> FALSE, charged |-> 0,
     retried |-> FALSE]

AtRest(t) == th[t].pc = "idle"

\* the call of record r is over; what it leaves behind
Done(r, v, how) ==
    [NoCall EXCEPT !.pc = "done", !.op = r.op, !.io_type = r.io_type,
                   !.io_op = r.io_op, !.req = r.req, !.cached = r.cached, !.result = v,
                   !.how = how, !.q0 = r.q0]

\* PriorityBasedIORateLimiter::request returns v: to its caller, or into
\* IORateLimiter::request (line 308-310)
Return(r, v, how) ==
    IF r.op = "io_request"
    THEN [Done(r, v, how) EXCEPT !.pc = "record"]
    ELSE Done(r, v, how)

\* a set_bytes_per_sec call that has not returned
SetterActive(r) == r.pc \in {"set_medium", "set_low"}

\* the threads that hold an Instant read from the clock
HoldsNow(r) ==
    r.pc \in {"lock", "rf_swap_High", "rf_calib_High", "rf_swap_Medium",
              "rf_calib_Medium", "rf_low"}

\* quiet0: the last setter event is the return of a set_bytes_per_sec(0)
\* that no other setter call overlapped; wason: that call found the limiter
\* switched on; refilled: a refill rotated the
\* epoch and returned since the last setter event, with no setter call in
\* progress; shared: some call was made on the limiter; granted[p]: what
\* the epoch of p began with, plus the grants made on the fast path since;
\* changed: "High" when set_bytes_per_sec changed the High budget from one
\* positive value to another and no refill that loaded the new budget has
\* calibrated the Medium budget since, "Medium" when that refill has yet to
\* calibrate the Low budget, "none" otherwise; input: the samples to feed
\* to an estimator; fed: how many of them were fed; emitted: what the last
\* call of maybe_update_estimation returned
NoHistory ==
    [quiet0 |-> FALSE, wason |-> FALSE, refilled |-> FALSE, shared |-> FALSE,
     granted |-> [p \in Priorities |-> 0], changed |-> "none",
     input |-> <<>>, fed |-> 0, emitted |-> [some |-> FALSE, avg |-> 0]]

\* line 95-102, 180-186
InitThrottle ==
    /\ bytes_through = [p \in Priorities |-> 0]
    /\ bytes_per_epoch = [p \in Priorities |-> 0]
    /\ next_refill_time = DEFAULT_REFILL_PERIOD
    /\ pending_bytes = [p \in Priorities |-> 0]
    /\ estimated_bytes_through = [p \in Priorities |-> IOThroughputEstimator_new]
    /\ mutex = "free"
    /\ th = [t \in Threads |-> NoCall]
    /\ hist = NoHistory

\* line 29-34
IORateLimiterStatistics_new ==
    [read_bytes |-> [i \in IOTypes |-> 0], write_bytes |-> [i \in IOTypes |-> 0]]

\* line 274-284: IORateLimiter::new(enable_statistics)
IORateLimiter_new(enable_statistics) ==
    /\ InitThrottle
    /\ priority_map = [i \in IOTypes |-> "High"]
    /\ stats = [some |-> enable_statistics, counters |-> IORateLimiterStatistics_new]

Init == IORateLimiter_new(FALSE)

\* ------------------------------------------------------------ clock
\* Instant::now_coarse()
now_coarse == 0

\* the offsets of next_refill_time from the clock that the comparisons of
\* request_imp and refill tell apart; the clock is read at these
Landings ==
    {DEFAULT_REFILL_PERIOD - RETRY_SLACK, DEFAULT_REFILL_PERIOD - RETRY_SLACK - 1,
     DEFAULT_REFILL_PERIOD \div 2 + 1, DEFAULT_REFILL_PERIOD \div 2,
     1, 0, -(DEFAULT_REFILL_PERIOD \div 2), -MaxOverdue}

\* the clock advances by d
Tick(d) ==
    /\ next_refill_time - d \in Landings
    /\ \A t \in Threads : HoldsNow(th[t]) => th[t].now - d >= -MaxStale
    /\ next_refill_time' = next_refill_time - d
    /\ th' = [t \in Threads |->
                IF HoldsNow(th[t]) THEN [th[t] EXCEPT !.now = @ - d]
                ELSE IF th[t].pc = "sleep" THEN [th[t] EXCEPT !.wake = Max(@ - d, 0)]
                ELSE th[t]]
    /\ UNCHANGED <<bytes_through, bytes_per_epoch, pending_bytes,
                   estimated_bytes_through, mutex, facade, hist>>

\* ------------------------------------------------------------ request_imp
\* line 140-144: load the budget; zero means disabled
LoadBudget(t, r) ==
    LET cached == bytes_per_epoch[r.priority]
    IN  /\ th' = [th EXCEPT ![t] =
                    IF cached = 0
                    THEN Return([r EXCEPT !.cached = 0], r.req, "disabled")
                    ELSE [r EXCEPT !.cached = cached, !.pc = "fetch_add"]]
        /\ UNCHANGED <<throttle, mutex, facade>>

\* PriorityBasedIORateLimiter::request / async_request (line 205-211)
Request(t, priority, amount) ==
    /\ AtRest(t)
    /\ LoadBudget(t, [NoCall EXCEPT !.op = "request", !.priority = priority,
                                    !.req = amount, !.q0 = hist.quiet0])
    /\ hist' = [hist EXCEPT !.shared = TRUE]

\* `continue` (line 157): the loop starts over
ReqLoad(t) ==
    /\ th[t].pc = "load"
    /\ LoadBudget(t, th[t])
    /\ UNCHANGED hist

\* Clamp without the bound of line 145
ClampUnbounded(amount, cached_bytes_per_refill) == amount

\* line 145: a single request never exceeds one epoch
Clamp(amount, cached_bytes_per_refill) == Min(amount, cached_bytes_per_refill)

\* line 145-150: clamp, pre-charge, fast path
ReqFetchAdd(t) ==
    LET r == th[t]
        amount == Clamp(r.req, r.cached)
        total == bytes_through[r.priority] + amount
    IN  /\ r.pc = "fetch_add"
        /\ total <= MaxThrough
        /\ bytes_through' = [bytes_through EXCEPT ![r.priority] = total]
        /\ th' = [th EXCEPT ![t] =
                    IF total <= r.cached
                    THEN Return([r EXCEPT !.amount = amount], amount, "fast")
                    ELSE [r EXCEPT !.amount = amount, !.pc = "now",
                                   !.charged = @ + amount]]
        /\ hist' = IF total <= r.cached
                   THEN [hist EXCEPT !.granted[r.priority] = @ + amount]
                   ELSE hist
        /\ UNCHANGED <<bytes_per_epoch, next_refill_time, pending_bytes,
                       estimated_bytes_through, mutex, facade>>

\* line 151
ReqNow(t) ==
    /\ th[t].pc = "now"
    /\ th' = [th EXCEPT ![t].now = now_coarse, ![t].pc = "lock"]
    /\ UNCHANGED <<throttle, mutex, facade, hist>>

\* line 155: a refill slipped in after bytes_per_epoch was fetched
RefillSlippedIn(nrt, now) == nrt + RETRY_SLACK >= now + DEFAULT_REFILL_PERIOD

\* Wait without the rest of the running epoch
WaitWholeEpochs(pending, cached, nrt, now) ==
    DEFAULT_REFILL_PERIOD * (pending \div cached)

\* line 162-166: the sleep
Wait(pending, cached, nrt, now) ==
    DEFAULT_REFILL_PERIOD * (pending \div cached)
        + (IF nrt > now THEN nrt - now ELSE 0)

\* RefillOverdue that never finds the refill delayed
RefillOverdueNever(nrt, now) == FALSE

\* line 163-166: expected refill delayed too long
RefillOverdue(nrt, now) ==
    /\ ~(nrt > now)
    /\ nrt + DEFAULT_REFILL_PERIOD \div 2 < now

\* line 152-174: the mutex protected block, the wait, and the start of the
\* sleep or of the call of refill
ReqLock(t) ==
    LET r == th[t]
        nrt == next_refill_time
        pending == pending_bytes[r.priority] + r.amount
        wait == Wait(pending, r.cached, nrt, r.now)
    IN  /\ r.pc = "lock"
        /\ mutex = "free"
        /\ IF RefillSlippedIn(nrt, r.now)
           THEN /\ th' = [th EXCEPT ![t] = [r EXCEPT !.now = 0, !.pc = "load",
                                                     !.retried = TRUE]]
                /\ UNCHANGED pending_bytes
           ELSE /\ pending <= MaxPending
                /\ pending_bytes' = [pending_bytes EXCEPT ![r.priority] = pending]
                /\ th' = [th EXCEPT ![t] =
                            [r EXCEPT !.now = 0, !.pending = pending,
                                      !.charged = 0, !.retried = FALSE,
                                      !.wait = wait, !.wake = wait,
                                      !.nested = RefillOverdue(nrt, r.now),
                                      !.pc = IF RefillOverdue(nrt, r.now)
                                             THEN "refill" ELSE "sleep"]]
        /\ UNCHANGED <<bytes_through, bytes_per_epoch, next_refill_time,
                       estimated_bytes_through, mutex, facade, hist>>

\* line 173-174: do_sleep!(wait) is over; wake is the Instant it ends at
ReqWake(t) ==
    /\ th[t].pc = "sleep"
    /\ th[t].wake <= now_coarse
    /\ th' = [th EXCEPT ![t] = Return(th[t], th[t].amount, "slow")]
    /\ UNCHANGED <<throttle, mutex, facade, hist>>

\* ------------------------------------------------------------ refill
\* refill returns: to the daemon, or into request_imp before its sleep
RefillReturn(r, how) ==
    IF r.nested
    THEN [r EXCEPT !.pc = "sleep", !.wake = r.wait, !.now = 0, !.limit = 0]
    ELSE Done(r, 0, how)

\* line 217-222: lock, load the High budget
RefillLock(t, r, epochs) ==
    LET limit == bytes_per_epoch["High"]
    IN  /\ mutex = "free"
        /\ estimated_bytes_through["High"].count < epochs
        /\ IF limit = 0
           THEN /\ th' = [th EXCEPT ![t] = RefillReturn(r, "disabled")]
                /\ UNCHANGED mutex
           ELSE /\ th' = [th EXCEPT ![t] = [r EXCEPT !.limit = limit, !.pc = "rf_now"]]
                /\ mutex' = t
        /\ UNCHANGED <<throttle, facade>>

\* the daemon (line 348-354), or any caller of IORateLimiter::refill
Refill(t, epochs) ==
    /\ AtRest(t)
    /\ RefillLock(t, [NoCall EXCEPT !.op = "refill"], epochs)
    /\ hist' = [hist EXCEPT !.shared = TRUE]

\* line 168: request_imp calls refill
ReqRefill(t, epochs) ==
    /\ th[t].pc = "refill"
    /\ RefillLock(t, th[t], epochs)
    /\ UNCHANGED hist

\* AlreadyRefilled with the whole period for the half
AlreadyRefilledWholePeriod(nrt, now) == nrt > now + DEFAULT_REFILL_PERIOD

\* line 224: already refilled
AlreadyRefilled(nrt, now) == nrt > now + DEFAULT_REFILL_PERIOD \div 2

\* the epoch that ends at once
EndOfEpochNow(now) == now

\* line 230: the end of the epoch that begins at now
EndOfEpoch(now) == now + DEFAULT_REFILL_PERIOD

\* line 223-230
RefillNow(t) ==
    LET r == th[t]
        now == now_coarse
    IN  /\ r.pc = "rf_now"
        /\ IF AlreadyRefilled(next_refill_time, now)
           THEN /\ th' = [th EXCEPT ![t] = RefillReturn(r, "early")]
                /\ mutex' = "free"
                /\ UNCHANGED next_refill_time
           ELSE /\ th' = [th EXCEPT ![t] = [r EXCEPT !.now = now, !.pc = "rf_swap_High"]]
                /\ next_refill_time' = EndOfEpoch(now)
                /\ UNCHANGED mutex
        /\ UNCHANGED <<bytes_through, bytes_per_epoch, pending_bytes,
                       estimated_bytes_through, facade, hist>>

\* the records of the threads after refiller t moved to record r and reset
\* bytes_through[p]: the bytes the requests in flight at p had added are gone
Resetting(t, r, p) ==
    [u \in Threads |-> IF u = t THEN r
                       ELSE IF th[u].priority = p /\ th[u].charged > 0
                            THEN [th[u] EXCEPT !.charged = 0]
                            ELSE th[u]]

\* CarriedOver with no pending IOs inherited
CarriedOverNothing(pending) == 0

\* line 238, 258: the pending IOs are the first consumption of the new epoch
CarriedOver(pending) == pending

\* line 236-244: reset the consumption of p, inherit the pending IOs, sample
RefillSwap(t, p) ==
    LET r == th[t]
        consumed == Min(bytes_through[p], r.limit)
        e == maybe_update_estimation(estimated_bytes_through[p], consumed)
    IN  /\ r.pc = "rf_swap_" \o p
        /\ bytes_through' = [bytes_through EXCEPT ![p] = CarriedOver(pending_bytes[p])]
        /\ hist' = [hist EXCEPT !.granted[p] = pending_bytes[p]]
        /\ pending_bytes' = [pending_bytes EXCEPT ![p] = saturating_sub(@, r.limit)]
        /\ estimated_bytes_through' = [estimated_bytes_through EXCEPT ![p] = e.est]
        /\ th' = Resetting(t, [r EXCEPT !.some = e.some, !.avg = e.avg,
                                        !.pc = "rf_calib_" \o p], p)
        /\ UNCHANGED <<bytes_per_epoch, next_refill_time, mutex, facade>>

\* Calibrate without the small positive value of line 249
CalibrateNoFloor(limit, estimate) == limit - estimate

\* line 246-250
Calibrate(limit, estimate) == IF limit > estimate THEN limit - estimate ELSE 1

\* the refill of record r, about to calibrate the budget below p, loaded the
\* High budget after set_bytes_per_sec changed it, and no refill has
\* calibrated that budget since
FirstSince(r, p) ==
    /\ hist.changed = p
    /\ p = "High" => r.limit = bytes_per_epoch["High"]

\* line 245-254: calibrate the quota of the next lower priority
RefillCalib(t, p) ==
    LET r == th[t]
        limit == IF r.some THEN Calibrate(r.limit, r.avg)
                           ELSE bytes_per_epoch[Lower(p)]
    IN  /\ r.pc = "rf_calib_" \o p
        /\ bytes_per_epoch' = IF r.some
                              THEN [bytes_per_epoch EXCEPT ![Lower(p)] = limit]
                              ELSE bytes_per_epoch
        /\ th' = [th EXCEPT ![t] =
                    [r EXCEPT !.limit = limit, !.some = FALSE, !.avg = 0,
                              !.pc = IF p = "High" THEN "rf_swap_Medium"
                                                   ELSE "rf_low"]]
        /\ hist' = IF r.some /\ FirstSince(r, p)
                   THEN [hist EXCEPT !.changed = IF p = "High" THEN "Medium"
                                                              ELSE "none"]
                   ELSE hist
        /\ UNCHANGED <<bytes_through, next_refill_time, pending_bytes,
                       estimated_bytes_through, mutex, facade>>

\* line 256-262
RefillLow(t) ==
    LET r == th[t]
    IN  /\ r.pc = "rf_low"
        /\ bytes_through' = [bytes_through EXCEPT
                                !["Low"] = CarriedOver(pending_bytes["Low"])]
        /\ pending_bytes' = [pending_bytes EXCEPT !["Low"] = saturating_sub(@, r.limit)]
        /\ mutex' = "free"
        /\ th' = Resetting(t, RefillReturn(r, "rotated"), "Low")
        /\ hist' = [hist EXCEPT !.refilled = ~(\E u \in Threads : SetterActive(th[u])),
                                !.granted["Low"] = pending_bytes["Low"]]
        /\ UNCHANGED <<bytes_per_epoch, next_refill_time,
                       estimated_bytes_through, facade>>

\* ------------------------------------------------------------ set_bytes_per_sec
\* line 192: (bytes_per_sec as f64 * 0.04) as usize
BytesPerEpoch(bytes_per_sec) == (bytes_per_sec * DEFAULT_REFILL_PERIOD) \div 1000

\* Toggle that misses the switch off
ToggleOnOnly(before, now) == before = 0

\* Toggle that misses the switch on
ToggleOffOnly(before, now) == now = 0

\* Toggle at every change of the rate
ToggleAlways(before, now) == TRUE

\* line 194: toggle on/off rate limit
Toggle(before, now) == before = 0 \/ now = 0

\* the records of the threads after setter t began its call and moved to
\* record r: the setter calls in progress learn that they overlap
Overlapping(t, r) ==
    [u \in Threads |-> IF u = t THEN r
                       ELSE IF SetterActive(th[u])
                            THEN [th[u] EXCEPT !.overlap = TRUE]
                            ELSE th[u]]

\* line 192-194; the local `now` of the source is the field limit
SetBytesPerSec(t, bytes_per_sec) ==
    LET now == BytesPerEpoch(bytes_per_sec)
        before == bytes_per_epoch["High"]
        overlap == \E u \in Threads \ {t} : SetterActive(th[u])
        r == [NoCall EXCEPT !.op = "set_bytes_per_sec", !.limit = now,
                            !.req = bytes_per_sec, !.before = before,
                            !.from0 = (hist.quiet0 /\ hist.wason),
                            !.overlap = overlap]
    IN  /\ AtRest(t)
        /\ bytes_per_epoch' = [bytes_per_epoch EXCEPT !["High"] = now]
        /\ th' = Overlapping(t, IF Toggle(before, now)
                                THEN [r EXCEPT !.pc = "set_medium"]
                                ELSE [r EXCEPT !.pc = "done", !.before = 0,
                                               !.how = "set"])
        /\ hist' = [hist EXCEPT
                        !.quiet0 = ~Toggle(before, now) /\ now = 0 /\ ~overlap,
                        !.wason = ~Toggle(before, now) /\ now = 0 /\ before > 0,
                        !.refilled = FALSE, !.shared = TRUE,
                        !.changed = IF before > 0 /\ now > 0 /\ before # now
                                    THEN "High"
                                    ELSE IF before = now THEN @ ELSE "none"]
        /\ UNCHANGED <<bytes_through, next_refill_time, pending_bytes,
                       estimated_bytes_through, mutex, facade>>

\* line 197-200, p = Medium
SetMedium(t) ==
    /\ th[t].pc = "set_medium"
    /\ mutex = "free"
    /\ mutex' = t
    /\ bytes_per_epoch' = [bytes_per_epoch EXCEPT !["Medium"] = th[t].limit]
    /\ th' = [th EXCEPT ![t].pc = "set_low"]
    /\ UNCHANGED <<bytes_through, next_refill_time, pending_bytes,
                   estimated_bytes_through, facade, hist>>

\* line 198-202, p = Low
SetLow(t) ==
    /\ th[t].pc = "set_low"
    /\ bytes_per_epoch' = [bytes_per_epoch EXCEPT !["Low"] = th[t].limit]
    /\ mutex' = "free"
    /\ th' = [th EXCEPT ![t] = [th[t] EXCEPT !.pc = "done", !.before = 0,
                                            !.how = "toggle"]]
    /\ hist' = [hist EXCEPT !.quiet0 = (th[t].limit = 0 /\ ~th[t].overlap),
                            !.wason = (th[t].limit = 0 /\ th[t].before > 0),
                            !.refilled = FALSE]
    /\ UNCHANGED <<bytes_through, next_refill_time, pending_bytes,
                   estimated_bytes_through, facade>>

\* the caller of thread t takes the result of its call
Finish(t) ==
    /\ th[t].pc = "done"
    /\ th' = [th EXCEPT ![t] = NoCall]
    /\ UNCHANGED <<throttle, mutex, facade, hist>>

\* ------------------------------------------------------------ IORateLimiter
\* line 286-288: set_io_priority takes &mut self, so it runs before the
\* limiter is shared
set_io_priority(io_type, io_priority) ==
    /\ ~hist.shared
    /\ priority_map' = [priority_map EXCEPT ![io_type] = io_priority]
    /\ UNCHANGED <<throttle, mutex, stats, th, hist>>

\* every operation goes through the throttle
ThrottledAlways(io_op) == TRUE

\* line 306, 321: only writes go through the throttle
Throttled(io_op) == io_op = "Write"

\* line 309, 324: stats.record(io_type, io_op, bytes)
Record(s, io_type, io_op, bytes) ==
    IF ~s.some THEN s
    ELSE IF io_op = "Read"
         THEN [s EXCEPT !.counters.read_bytes[io_type] = @ + bytes]
         ELSE [s EXCEPT !.counters.write_bytes[io_type] = @ + bytes]

\* the counter of (io_type, io_op) stays within its cap
Recordable(s, io_type, io_op, bytes) ==
    \/ ~s.some
    \/ io_op = "Read" /\ s.counters.read_bytes[io_type] + bytes <= MaxStat
    \/ io_op = "Write" /\ s.counters.write_bytes[io_type] + bytes <= MaxStat

\* line 305-314, 320-329: IORateLimiter::request / async_request
IORequest(t, io_type, io_op, bytes) ==
    LET r == [NoCall EXCEPT !.op = "io_request", !.io_type = io_type,
                            !.io_op = io_op, !.req = bytes,
                            !.priority = priority_map[io_type],
                            !.q0 = hist.quiet0]
    IN  /\ AtRest(t)
        /\ hist' = [hist EXCEPT !.shared = TRUE]
        /\ IF Throttled(io_op)
           THEN LoadBudget(t, r)
           ELSE /\ Recordable(stats, io_type, io_op, bytes)
                /\ stats' = Record(stats, io_type, io_op, bytes)
                /\ th' = [th EXCEPT ![t] = Done(r, bytes, "unthrottled")]
                /\ UNCHANGED <<throttle, mutex, priority_map>>

\* line 308-312: the throttle returned; record and return
IORecord(t) ==
    LET r == th[t]
    IN  /\ r.pc = "record"
        /\ Recordable(stats, r.io_type, r.io_op, r.result)
        /\ stats' = Record(stats, r.io_type, r.io_op, r.result)
        /\ th' = [th EXCEPT ![t] = [r EXCEPT !.pc = "done"]]
        /\ UNCHANGED <<throttle, mutex, priority_map, hist>>

\* ------------------------------------------------------------ specification
\* the calls of the requesters R at the priorities P with the amounts A, of
\* the refillers D over at most E epochs, and of the setters S with the rates B
Throttle(R, P, A, D, E, S, B) ==
    \/ \E d \in 1..(DEFAULT_REFILL_PERIOD + MaxOverdue) : Tick(d)
    \/ \E t \in R, p \in P, a \in A : Request(t, p, a)
    \/ \E t \in R : ReqLoad(t)
    \/ \E t \in R : ReqFetchAdd(t)
    \/ \E t \in R : ReqNow(t)
    \/ \E t \in R : ReqLock(t)
    \/ \E t \in R : ReqWake(t)
    \/ \E t \in R : ReqRefill(t, E)
    \/ \E t \in D : Refill(t, E)
    \/ \E t \in R \cup D : RefillNow(t)
    \/ \E t \in R \cup D, p \in {"High", "Medium"} : RefillSwap(t, p)
    \/ \E t \in R \cup D, p \in {"High", "Medium"} : RefillCalib(t, p)
    \/ \E t \in R \cup D : RefillLow(t)
    \/ \E t \in S, b \in B : SetBytesPerSec(t, b)
    \/ \E t \in S : SetMedium(t)
    \/ \E t \in S : SetLow(t)
    \/ \E t \in R \cup D \cup S : Finish(t)

\* one requester at the High priority, the refill daemon, one setter
Next == Throttle({"req1"}, {"High"}, Amounts, Daemons, MaxEpochs, {"set1"}, Rates)

Spec == Init /\ [][Next]_vars

\* as Spec with requests of one byte, over a whole window of the estimator:
\* the last refill calibrates the lower budgets
NextCalib ==
    Throttle({"req1"}, {"High"}, {1}, Daemons, WINDOW_SIZE, {"set1"}, Rates)

SpecCalib == Init /\ [][NextCalib]_vars

\* two setters race, the daemon refills over a whole window of the estimator
NextSetters == Throttle({}, {}, {}, Daemons, WINDOW_SIZE, Setters, Rates)

SpecSetters == Init /\ [][NextSetters]_vars

\* the facade: Compaction reads and writes of a byte by one thread, with or
\* without statistics, Compaction at the default or at the Medium priority
InitFacade == \E enable_statistics \in BOOLEAN : IORateLimiter_new(enable_statistics)

NextFacade ==
    \/ set_io_priority("Compaction", "Medium")
    \/ \E io_op \in IOOps : IORequest("req1", "Compaction", io_op, 1)
    \/ IORecord("req1")
    \/ Throttle({"req1"}, {}, {}, {}, MaxEpochs, {"set1"}, Rates)

SpecFacade == InitFacade /\ [][NextFacade]_vars

\* ------------------------------------------------------------ properties
\* a call of PriorityBasedIORateLimiter::request that returned
Returned(r) == r.pc = "done" /\ r.op = "request"

C3_Disabled ==
    /\ hist.quiet0 => \A p \in Priorities : bytes_per_epoch[p] = 0
    /\ \A t \in Threads :
            th[t].q0 => /\ th[t].pc = "done"
                        /\ th[t].how = "disabled"
                        /\ th[t].result = th[t].req

\* the limiter was on for a whole window, a refill calibrated, the limiter
\* was switched off, and a request of a byte went through unthrottled
C3_Witness ==
    /\ hist.quiet0
    /\ estimated_bytes_through["High"].count = WINDOW_SIZE
    /\ \E t \in Threads : /\ th[t].q0
                           /\ th[t].req > 0
                           /\ th[t].result = th[t].req

\* thread t begins a call of IORateLimiter::request with op == Read
BeginsRead(t) ==
    /\ th[t].pc = "idle"
    /\ th'[t].pc # "idle"
    /\ th'[t].op = "io_request"
    /\ th'[t].io_op = "Read"

\* C5: a read returns in the step it begins in, with exactly the bytes it
\* asked for, on the path that neither takes the mutex nor sleeps; the step
\* leaves bytes_through, pending_bytes, bytes_per_epoch, next_refill_time,
\* the estimators and the mutex as they were, and of the statistics it
\* changes at most the read counter of its io_type
C5_ReadsUnthrottled ==
    [][\A t \in Threads :
        BeginsRead(t) =>
            /\ th'[t].pc = "done"
            /\ th'[t].how = "unthrottled"
            /\ th'[t].result = th'[t].req
            /\ UNCHANGED <<throttle, mutex, priority_map>>
            /\ stats'.some = stats.some
            /\ stats'.counters.write_bytes = stats.counters.write_bytes
            /\ \A i \in IOTypes \ {th'[t].io_type} :
                    stats'.counters.read_bytes[i] = stats.counters.read_bytes[i]
      ]_vars

\* a read of a byte returned, counted, while the budget of its priority was
\* used up, so that a write of a byte would have been throttled
C5_Witness ==
    \E t \in Threads, i \in IOTypes :
        /\ th[t].pc = "done"
        /\ th[t].io_op = "Read"
        /\ th[t].result = 1
        /\ stats.some
        /\ stats.counters.read_bytes[i] = 1
        /\ bytes_per_epoch[priority_map[i]] > 0
        /\ bytes_through[priority_map[i]] >= bytes_per_epoch[priority_map[i]]

\* no set_bytes_per_sec call is between its begin and its return
NoSetterActive == \A t \in Threads : ~SetterActive(th[t])

\* C6: in a state with no set_bytes_per_sec call in progress, a zero High
\* budget comes with zero Medium and Low budgets
C6_HighOffAllOff ==
    NoSetterActive /\ bytes_per_epoch["High"] = 0
        => bytes_per_epoch["Medium"] = 0 /\ bytes_per_epoch["Low"] = 0

\* C7: in a state with no set_bytes_per_sec call in progress in which a
\* refill has rotated the epoch and returned since the last setter call, a
\* positive High budget comes with Medium and Low budgets of at least 1
C7_LowerTiersPositive ==
    NoSetterActive /\ hist.refilled /\ bytes_per_epoch["High"] > 0
        => bytes_per_epoch["Medium"] >= 1 /\ bytes_per_epoch["Low"] >= 1

\* thread t takes the step that decides whether its refill is too early
DecidesEarly(t) == th[t].pc = "rf_now" /\ th'[t].pc # "rf_now"

\* C8: a refill that finds next_refill_time > now + epoch_period / 2 returns
\* and leaves bytes_through, bytes_per_epoch, pending_bytes,
\* next_refill_time and the estimators as they were, as does the step
\* that took the mutex and loaded the budget before it; and whenever
\* next_refill_time moves forward it moves by at least half a period, so
\* that two rotations are at least half a period of clock time apart
C8_EarlyRefillIdempotent ==
    [][/\ \A t \in Threads :
            DecidesEarly(t)
              /\ next_refill_time > now_coarse + DEFAULT_REFILL_PERIOD \div 2
                => /\ UNCHANGED throttle
                   /\ th'[t].pc \in {"done", "sleep"}
       /\ \A t \in Threads :
            th[t].pc # "rf_now" /\ th'[t].pc = "rf_now" => UNCHANGED throttle
       /\ next_refill_time' > next_refill_time
            => next_refill_time' - next_refill_time >= DEFAULT_REFILL_PERIOD \div 2
      ]_vars

\* the second of two refills at the same clock value returned early
C8_Witness ==
    /\ next_refill_time = now_coarse + DEFAULT_REFILL_PERIOD
    /\ estimated_bytes_through["High"].count >= 1
    /\ \E t \in Threads : /\ th[t].pc = "done"
                           /\ th[t].op = "refill"
                           /\ th[t].how = "early"

\* thread t returns from refill having found the limiter switched off
ReturnsDisabled(t) ==
    \/ th[t].pc = "idle" /\ th'[t].pc = "done" /\ th'[t].op = "refill"
    \/ th[t].pc = "refill" /\ th'[t].pc = "sleep"

\* thread t returns from refill having loaded a positive High budget
ReturnsEnabled(t) ==
    th[t].pc \in {"rf_now", "rf_low"} /\ th'[t].pc \in {"done", "sleep"}

\* the clock value at which the refill of thread t ran: the one it read, or
\* the current one if it returns before it reads the clock
RanAt(t) == IF th[t].pc = "rf_low" THEN th[t].now ELSE now_coarse

\* C9 as stated: when any refill call returns, next_refill_time is after
\* the clock value at which the refill ran, by at most a period
C9_AsStated ==
    [][\A t \in Threads :
        ReturnsDisabled(t) \/ ReturnsEnabled(t)
            => /\ next_refill_time' > RanAt(t)
               /\ next_refill_time' <= RanAt(t) + DEFAULT_REFILL_PERIOD
      ]_vars

\* C9, amended: when a refill call that loaded a positive High budget
\* returns, next_refill_time is after the clock value at which the refill
\* ran, by at most a period
C9_RefillWindow ==
    [][\A t \in Threads :
        ReturnsEnabled(t)
            => /\ next_refill_time' > RanAt(t)
               /\ next_refill_time' <= RanAt(t) + DEFAULT_REFILL_PERIOD
      ]_vars

\* a refill rotated the epoch after the clock had moved on and returned
C9_Witness ==
    \E t \in Threads :
        /\ th[t].pc = "done"
        /\ th[t].op = "refill"
        /\ th[t].how = "rotated"
        /\ estimated_bytes_through["High"].count >= 2

\* thread t takes a step of set_bytes_per_sec
SetterStep(t) == th'[t] # th[t] /\ th'[t].op = "set_bytes_per_sec"

\* thread t returns from a set_bytes_per_sec(r), r positive, that no other
\* setter call overlapped and that began after a set_bytes_per_sec(0) on a
\* limiter switched on had returned, with no setter call between
ReturnsRoundTrip(t) ==
    /\ SetterStep(t)
    /\ th'[t].pc = "done"
    /\ th'[t].from0
    /\ ~th'[t].overlap
    /\ th'[t].limit > 0

\* C10 as stated: set_bytes_per_sec(0); set_bytes_per_sec(r) leaves the
\* throttle as a fresh instance after set_bytes_per_sec(r), pending_bytes
\* apart: the three budgets are r's, bytes_through is 0 and the estimators
\* are new
C10_AsStated ==
    [][\A t \in Threads :
        ReturnsRoundTrip(t)
            => \A p \in Priorities :
                /\ bytes_per_epoch'[p] = th'[t].limit
                /\ bytes_through'[p] = 0
                /\ estimated_bytes_through'[p] = IOThroughputEstimator_new
      ]_vars

\* C10, amended: set_bytes_per_sec(0); set_bytes_per_sec(r) leaves the three
\* budgets at r's, and no step of set_bytes_per_sec changes bytes_through,
\* pending_bytes, next_refill_time or the estimators
C10_ToggleRoundTrip ==
    [][\A t \in Threads :
        /\ SetterStep(t)
            => UNCHANGED <<bytes_through, pending_bytes, next_refill_time,
                           estimated_bytes_through>>
        /\ ReturnsRoundTrip(t)
            => \A p \in Priorities : bytes_per_epoch'[p] = th'[t].limit
      ]_vars

\* the round trip ended on a limiter that had let bytes through and sampled
C10_Witness ==
    \E t \in Threads :
        /\ th[t].pc = "done"
        /\ th[t].op = "set_bytes_per_sec"
        /\ th[t].from0
        /\ ~th[t].overlap
        /\ th[t].limit > 0
        /\ bytes_through["High"] > 0
        /\ estimated_bytes_through["High"].count > 0
        /\ \A p \in Priorities : bytes_per_epoch[p] = th[t].limit

\* ------------------------------------------------------------ C11
\* request t adds its grant to bytes_through (line 146)
Charges(t) == th[t].pc = "fetch_add" /\ th'[t].pc # "fetch_add"

\* request t adds its grant to pending_bytes (line 160)
Registers(t) == th[t].pc = "lock" /\ th'[t].pc \in {"sleep", "refill"}

\* C11: the grant of a call is counted once: the call adds it to
\* bytes_through only when no earlier addition of the call is still there,
\* and adds it to pending_bytes only when its addition to bytes_through is
\* still there
C11_ChargedOnce ==
    [][\A t \in Requesters :
          /\ Charges(t) => th[t].charged = 0
          /\ Registers(t) => th[t].charged = th[t].amount]_vars

\* ------------------------------------------------------------ C12
\* request t takes the slow path (line 147-151)
EntersSlowPath(t) == th[t].pc = "fetch_add" /\ th'[t].pc = "now"

\* request t starts over (line 155-157)
Retries(t) == th[t].pc = "lock" /\ th'[t].pc = "load"

\* C12: a request takes the slow path only when the total after its addition
\* exceeds the budget it loaded, and it starts over at most once, which
\* makes at most two additions to bytes_through
C12_OneRetry ==
    [][\A t \in Requesters :
          /\ EntersSlowPath(t) => bytes_through'[th[t].priority] > th[t].cached
          /\ Retries(t) => ~th[t].retried]_vars

\* ------------------------------------------------------------ C13
\* two concurrent requesters at one priority, the daemon, a setter
NextRequesters ==
    Throttle(Requesters, {"High"}, {1}, Daemons, MaxEpochs, {"set1"}, {25})

SpecRequesters == Init /\ [][NextRequesters]_vars

\* a refill begins the epoch of p (line 236-240, 258)
Rotates(p) ==
    \E t \in Threads :
        /\ th[t].pc = IF p = "Low" THEN "rf_low" ELSE "rf_swap_" \o p
        /\ th'[t].pc # th[t].pc

\* request t is granted on the fast path (line 147-149)
GrantsFast(t) == th[t].pc = "fetch_add" /\ th'[t].how = "fast"

\* a grant on the fast path at p, to a request that loaded the budget in force
GrantsFastAt(p) ==
    \E t \in Requesters :
        /\ GrantsFast(t)
        /\ th[t].priority = p
        /\ th[t].cached = bytes_per_epoch[p]

\* C13 as stated: from the rotation on, what the epoch of p inherited plus
\* what was granted on the fast path in it is within the budget of p
C13_AsStated ==
    [][\A p \in Priorities :
          (Rotates(p) /\ bytes_per_epoch[p] > 0) \/ GrantsFastAt(p)
              => hist'.granted[p] <= bytes_per_epoch[p]]_vars

\* C13: a grant on the fast path at p leaves what the epoch inherited plus
\* what was granted on the fast path in it within the budget; the debt an
\* epoch inherits may exceed the budget, and then nothing is granted on the
\* fast path
C13_FastPathCap ==
    [][\A p \in Priorities :
          GrantsFastAt(p) => hist'.granted[p] <= bytes_per_epoch[p]]_vars

\* the rotation found nothing consumed, and a byte was granted on the fast
\* path in the epoch it began
C13_Witness ==
    /\ estimated_bytes_through["High"] = [count |-> 1, sum |-> 0]
    /\ th["req1"].pc = "done" /\ th["req1"].how = "fast" /\ th["req1"].result = 1
    /\ hist.granted["High"] = 1
    /\ bytes_per_epoch["High"] = 1

\* ------------------------------------------------------------ C14
\* the limiter within a window of the estimators: set_bytes_per_sec has
\* switched it on, refills have calibrated the lower budgets and taken
\* `count` samples of k bytes each, requests have left consumption and
\* pending IOs behind, and a refill is due
MidWindow(count, Pending) ==
    /\ bytes_per_epoch \in [Priorities -> 1..MaxBudget]
    /\ bytes_per_epoch["Low"] <= bytes_per_epoch["Medium"]
    /\ bytes_through \in [Priorities -> 0..MaxBudget]
    /\ bytes_through["Low"] = 0
    /\ pending_bytes \in [Priorities -> Pending]
    /\ \E k \in [{"High", "Medium"} -> 0..MaxBudget] :
           estimated_bytes_through =
               [p \in Priorities |->
                   IF p = "Low" THEN IOThroughputEstimator_new
                   ELSE [count |-> count, sum |-> count * k[p]]]
    /\ next_refill_time = 0
    /\ mutex = "free"
    /\ th = [t \in Threads |-> NoCall]
    /\ hist = [NoHistory EXCEPT !.shared = TRUE]
    /\ priority_map = [i \in IOTypes |-> "High"]
    /\ stats = [some |-> FALSE, counters |-> IORateLimiterStatistics_new]

\* the limiter before the last refill of a window
InitRefill == MidWindow(WINDOW_SIZE - 1, 0..MaxPending)

\* the daemon refills at the end of the window and once in the next
NextRefill == Throttle({}, {}, {}, Daemons, WINDOW_SIZE + 1, {}, {})

SpecRefill == InitRefill /\ [][NextRefill]_vars

\* refill t resets the consumption and the pending IOs of p
\* (line 236-242, 256-262)
Resets(t, p) ==
    /\ th[t].pc = IF p = "Low" THEN "rf_low" ELSE "rf_swap_" \o p
    /\ th'[t].pc # th[t].pc

\* the budget of p as the resetting refill t has it: the High budget it
\* loaded (line 218), the Medium or Low budget in force (line 252, 254)
LimitOf(t, p) == IF p = "High" THEN th[t].limit ELSE bytes_per_epoch[p]

\* C14: a refill that rotates the epoch sets bytes_through[p] to the pending
\* bytes of p and pending_bytes[p] to what exceeds the budget of p: the High
\* budget it loaded, the Medium and Low budgets in force after it calibrated
\* them; pending_bytes is never negative
C14_EpochReset ==
    [][\A t \in Threads, p \in Priorities :
          Resets(t, p) =>
              /\ bytes_through'[p] = pending_bytes[p]
              /\ pending_bytes'[p] = Max(pending_bytes[p] - LimitOf(t, p), 0)
              /\ pending_bytes'[p] >= 0]_vars

\* the refill has calibrated the Medium budget from 2 to 1, and then reset
\* Medium with 2 bytes pending
C14_Witness ==
    /\ th["daemon"].pc = "rf_calib_Medium"
    /\ estimated_bytes_through["High"].count = WINDOW_SIZE
    /\ bytes_per_epoch["Medium"] = 1
    /\ bytes_per_epoch["Low"] = 2
    /\ bytes_through["Medium"] = 2
    /\ pending_bytes["Medium"] = 1

\* ------------------------------------------------------------ C15
\* refill t is past the estimator of p (line 243-254)
Calibrates(t, p) == th[t].pc = "rf_calib_" \o p /\ th'[t].pc # th[t].pc

\* refill t takes a step
Refills(t) ==
    /\ th[t].pc \in {"rf_now", "rf_swap_High", "rf_calib_High",
                     "rf_swap_Medium", "rf_calib_Medium", "rf_low"}
    /\ th'[t].pc # th[t].pc

\* C15: when the estimator of p emits e, refill sets the budget of the next
\* lower priority to max(limit - e, 1), limit being the High budget it
\* loaded, then the Medium budget it just computed; when the estimator does
\* not emit it leaves the budgets alone; it never writes the High budget
C15_Calibration ==
    [][\A t \in Threads :
          /\ \A p \in {"High", "Medium"} :
                Calibrates(t, p) =>
                    bytes_per_epoch' =
                        IF th[t].some
                        THEN [bytes_per_epoch EXCEPT
                                ![Lower(p)] = Max(LimitOf(t, p) - th[t].avg, 1)]
                        ELSE bytes_per_epoch
          /\ Refills(t) => bytes_per_epoch'["High"] = bytes_per_epoch["High"]]_vars

\* the estimator of High emitted, and the refill lowered the Medium budget
\* from 2 to 1
C15_Witness ==
    /\ th["daemon"].pc = "rf_swap_Medium"
    /\ estimated_bytes_through["High"].count = WINDOW_SIZE
    /\ bytes_per_epoch = [High |-> 2, Medium |-> 1, Low |-> 2]

\* ------------------------------------------------------------ C16
\* the rates of SpecRates: off, and two rates with different budgets
ChangingRates == {0, 25, 50}

\* the limiter two refills before the end of a window, nothing pending
InitRates == MidWindow(WINDOW_SIZE - 2, {0})

\* the daemon refills to the end of the window, a setter changes the rate
NextRates ==
    Throttle({}, {}, {}, Daemons, WINDOW_SIZE, {"set1"}, ChangingRates)

SpecRates == InitRates /\ [][NextRates]_vars

\* a set_bytes_per_sec call that found and left the High budget positive
\* stores the Medium or the Low budget (line 197-202)
StoresLower(t) ==
    /\ th[t].pc \in {"set_medium", "set_low"}
    /\ th'[t].pc # th[t].pc
    /\ th[t].before > 0
    /\ th[t].limit > 0

RefillReturns(t) ==
    /\ th[t].nested
    /\ th[t].pc \in {"rf_now", "rf_low"}
    /\ th'[t].pc = "sleep"

\* C17: a request that registers its pending bytes calls refill before it
\* sleeps exactly when it finds next_refill_time more than half a period
\* behind its clock reading, and never when next_refill_time is ahead of
\* it; that refill resets bytes_through of every priority to the pending
\* bytes, and when it returns next_refill_time is more than half a period
\* ahead of the clock reading of the refill, which is not before that of
\* the request: the epoch has been rotated
C17_SelfHealing ==
    [][\A t \in Requesters :
          /\ Registers(t) =>
                /\ th'[t].pc = "refill" <=>
                      next_refill_time + DEFAULT_REFILL_PERIOD \div 2 < th[t].now
                /\ next_refill_time > th[t].now => th'[t].pc = "sleep"
          /\ \A p \in Priorities :
                Resets(t, p) /\ th[t].nested =>
                    bytes_through'[p] = pending_bytes[p]
          /\ RefillReturns(t) =>
                next_refill_time' > RanAt(t) + DEFAULT_REFILL_PERIOD \div 2]_vars

\* the request found the refill overdue, called refill, and sleeps in the
\* epoch that refill began
C17_Witness ==
    /\ th["req1"].pc = "sleep"
    /\ th["req1"].nested
    /\ estimated_bytes_through["High"].count = 1
    /\ next_refill_time > DEFAULT_REFILL_PERIOD \div 2
    /\ th["daemon"].op = "none"

\* ------------------------------------------------------------ C18
\* the least number of budgets b that cover a
CeilDiv(a, b) == (a + b - 1) \div b

\* C18: a request that registers its grant sleeps a period for every whole
\* budget, the one it loaded, in the pending bytes it snapshots, plus the
\* time to next_refill_time when that is ahead of its clock reading; this
\* is at most one period more than a period for every budget begun
C18_Sleep ==
    [][\A t \in Requesters :
          Registers(t) =>
              LET pending == pending_bytes'[th[t].priority]
                  budget == th[t].cached
                  rest == IF next_refill_time > th[t].now
                          THEN next_refill_time - th[t].now ELSE 0
              IN  /\ pending = pending_bytes[th[t].priority] + th[t].amount
                  /\ th'[t].wait =
                        DEFAULT_REFILL_PERIOD * (pending \div budget) + rest
                  /\ th'[t].wait <=
                        DEFAULT_REFILL_PERIOD * (1 + CeilDiv(pending, budget))]_vars

\* a request of a byte sleeps a period for the budget it fills and the 38 ms
\* that are left of the epoch
C18_Witness ==
    /\ th["req1"].pc = "sleep"
    /\ th["req1"].pending = 1
    /\ th["req1"].cached = 1
    /\ th["req1"].wait = 2 * DEFAULT_REFILL_PERIOD - RETRY_SLACK - 1

\* ------------------------------------------------------------ C19
\* a fresh estimator and the samples to feed to it
InitEstimator ==
    /\ bytes_through = [p \in Priorities |-> 0]
    /\ bytes_per_epoch = [p \in Priorities |-> 0]
    /\ next_refill_time = DEFAULT_REFILL_PERIOD
    /\ pending_bytes = [p \in Priorities |-> 0]
    /\ estimated_bytes_through = [p \in Priorities |-> IOThroughputEstimator_new]
    /\ mutex = "free"
    /\ th = [t \in Threads |-> NoCall]
    /\ \E input \in [1..MaxSamples -> 0..MaxSample] :
           hist = [NoHistory EXCEPT !.input = input]
    /\ priority_map = [i \in IOTypes |-> "High"]
    /\ stats = [some |-> FALSE, counters |-> IORateLimiterStatistics_new]

\* the next sample is fed to the estimator (line 243-244)
Feed ==
    LET v == hist.input[hist.fed + 1]
        e == maybe_update_estimation(estimated_bytes_through["High"], v)
    IN  /\ hist.fed < Len(hist.input)
        /\ estimated_bytes_through' =
               [estimated_bytes_through EXCEPT !["High"] = e.est]
        /\ hist' = [hist EXCEPT !.fed = @ + 1,
                                !.emitted = [some |-> e.some, avg |-> e.avg]]
        /\ UNCHANGED <<bytes_through, bytes_per_epoch, next_refill_time,
                       pending_bytes, mutex, facade, th>>

NextEstimator == Feed

SpecEstimator == InitEstimator /\ [][NextEstimator]_vars

\* the sum of the samples i to j of s
RECURSIVE SumOf(_, _, _)
SumOf(s, i, j) == IF i > j THEN 0 ELSE s[i] + SumOf(s, i + 1, j)

\* C19: the n-th call of maybe_update_estimation emits exactly when n is a
\* multiple of 5, and it emits the sum of the five most recent samples
\* divided by 5, rounded down
C19_Estimator ==
    hist.fed > 0 =>
        /\ hist.emitted.some <=> hist.fed % 5 = 0
        /\ hist.emitted.some =>
              hist.emitted.avg = SumOf(hist.input, hist.fed - 4, hist.fed) \div 5

\* the first window held five bytes, the second holds four: the second
\* estimate is 0
C19_Witness ==
    /\ hist.fed = 10
    /\ SumOf(hist.input, 1, 5) = 5
    /\ SumOf(hist.input, 6, 10) = 4
    /\ hist.emitted = [some |-> TRUE, avg |-> 0]

\* ------------------------------------------------------------ C20
\* off, the least rate, and the rates about the least budget of a byte
LowRates == {0, 1, 24, 25}

\* one setter and the daemon on a fresh limiter
NextLowRates == Throttle({}, {}, {}, Daemons, MaxEpochs, {"set1"}, LowRates)

SpecLowRates == Init /\ [][NextLowRates]_vars

\* the set_bytes_per_sec call of t has returned
HasSet(t) == th[t].pc = "done" /\ th[t].op = "set_bytes_per_sec"

\* C20: after set_bytes_per_sec(bytes_per_sec) with bytes_per_sec >= 1 has
\* returned, the High budget is the bytes of 40 ms at that rate and at
\* least 1: the limiter is switched on
C20_PositiveRateThrottles ==
    \A t \in Setters :
        HasSet(t) /\ th[t].req >= 1 =>
            /\ bytes_per_epoch["High"] =
                  (th[t].req * DEFAULT_REFILL_PERIOD) \div 1000
            /\ bytes_per_epoch["High"] >= 1

\* ------------------------------------------------------------ C21
\* one setter that switches the limiter on and off and changes the rate,
\* and the daemon, on a fresh limiter
NextChanges ==
    Throttle({}, {}, {}, Daemons, MaxEpochs, {"set1"}, ChangingRates)

SpecChanges == Init /\ [][NextChanges]_vars

\* a refill call that has not returned
RefillActive(r) ==
    r.pc \in {"refill", "rf_now", "rf_swap_High", "rf_calib_High",
              "rf_swap_Medium", "rf_calib_Medium", "rf_low"}

\* C21: whenever no set_bytes_per_sec and no refill call is in progress, the
\* budgets are ordered by priority: Low <= Medium <= High
C21_BudgetsOrdered ==
    NoSetterActive /\ (\A t \in Threads : ~RefillActive(th[t])) =>
        /\ bytes_per_epoch["Low"] <= bytes_per_epoch["Medium"]
        /\ bytes_per_epoch["Medium"] <= bytes_per_epoch["High"]
====
